---- MODULE Spec2Model ----
(***************************************************************************)
(* Model of scripts/roster_csv_tool.py: the value codec (parse_value,      *)
(* format_value), the CSV export, the CSV import with its three merge      *)
(* modes, the store writer save_roster, the validator validate_csv and the *)
(* export, import and validate branches of main.                           *)
(*                                                                         *)
(* Python text is modelled as a sequence of one-character strings, so that *)
(* str(), strip() and lower() are computed and not assumed.  A dict is     *)
(* modelled as a sequence of entries in insertion order.                   *)
(***************************************************************************)
EXTENDS Integers, Sequences, FiniteSets, TLC

VARIABLES
    table,            \* the DataFrame pd.read_csv returns for the input file
    mode,             \* merge_mode: "replace", "merge" or "add_only"
    disk,             \* the roster file: [exists, data], data = chunks written
    prior,            \* disk as it was when the current command started
    pc,               \* position of the current process
    cmd,              \* args.command of the current process
    run,              \* number of import commands started so far
    existing_roster,  \* import_from_csv: existing_roster
    new_roster,       \* import_from_csv: new_roster
    stats,            \* import_from_csv: stats
    saved,            \* what save_roster returned: "none", "true", "false"
    prevSaved,        \* saved of the previous import command
    reported,         \* "Import complete:" was printed by the current command
    exitStatus,       \* exit status of the process, -1 while it runs
    valid,            \* what validate_csv returned: "none", "true", "false"
    errors,           \* validate_csv: errors, as a set of listed cells
    codec,            \* a value-codec computation: input, step and results
    exported          \* export_to_csv: the DataFrame df it writes

vars == <<table, mode, disk, prior, pc, cmd, run, existing_roster, new_roster,
          stats, saved, prevSaved, reported, exitStatus, valid, errors, codec,
          exported>>

-----------------------------------------------------------------------------
(* Bounds *)

MaxRows == 2      \* rows in the input table
MaxRuns == 2      \* import commands run one after another
MaxInt == 3       \* integer cells range over -MaxInt .. MaxInt
MaxTenths == 25   \* float cells range over -2.5 .. 2.5 in steps of 0.1

-----------------------------------------------------------------------------
(* Python text *)

Digits == <<"0", "1", "2", "3", "4", "5", "6", "7", "8", "9">>

RECURSIVE StrNat(_)
StrNat(n) ==
    IF n < 10 THEN <<Digits[n + 1]>>
    ELSE StrNat(n \div 10) \o <<Digits[(n % 10) + 1]>>

\* str(n) for an int n
StrInt(n) == IF n < 0 THEN <<"-">> \o StrNat(-n) ELSE StrNat(n)

\* str(x) for the float x = t / 10
StrFloat(t) ==
    LET a == IF t < 0 THEN -t ELSE t
    IN  (IF t < 0 THEN <<"-">> ELSE <<>>)
            \o StrNat(a \div 10) \o <<".">> \o StrNat(a % 10)

IsDigit(c) == \E d \in 1..10 : Digits[d] = c

DigitValue(c) == (CHOOSE d \in 1..10 : Digits[d] = c) - 1

RECURSIVE NatOfStr(_)
NatOfStr(s) ==
    IF s = <<>> THEN 0
    ELSE 10 * NatOfStr(SubSeq(s, 1, Len(s) - 1)) + DigitValue(s[Len(s)])

\* s is an optional minus sign followed by one or more decimal digits
IsIntText(s) ==
    LET d == IF s # <<>> /\ Head(s) = "-" THEN Tail(s) ELSE s
    IN  d # <<>> /\ \A i \in 1..Len(d) : IsDigit(d[i])

\* int(s) for such a text
IntOfStr(s) == IF Head(s) = "-" THEN -NatOfStr(Tail(s)) ELSE NatOfStr(s)

IsSpace(c) == c \in {" ", "\t", "\n", "\r"}

RECURSIVE LStrip(_)
LStrip(s) ==
    IF s = <<>> THEN s
    ELSE IF IsSpace(Head(s)) THEN LStrip(Tail(s)) ELSE s

RECURSIVE RStrip(_)
RStrip(s) ==
    IF s = <<>> THEN s
    ELSE IF IsSpace(s[Len(s)]) THEN RStrip(SubSeq(s, 1, Len(s) - 1)) ELSE s

\* str.strip()
Strip(s) == RStrip(LStrip(s))

UpperCase == <<"A", "B", "C", "D", "E", "F", "G", "H", "I", "J", "K", "L", "M",
               "N", "O", "P", "Q", "R", "S", "T", "U", "V", "W", "X", "Y", "Z">>
LowerCase == <<"a", "b", "c", "d", "e", "f", "g", "h", "i", "j", "k", "l", "m",
               "n", "o", "p", "q", "r", "s", "t", "u", "v", "w", "x", "y", "z">>

LowerChar(c) ==
    IF \E i \in 1..Len(UpperCase) : UpperCase[i] = c
    THEN LowerCase[CHOOSE i \in 1..Len(UpperCase) : UpperCase[i] = c]
    ELSE c

\* str.lower()
Lower(s) == [i \in 1..Len(s) |-> LowerChar(s[i])]

-----------------------------------------------------------------------------
(* Cell values as pandas hands them over.  kind "nan" is a missing cell,   *)
(* "int" the integer n, "float" the float n / 10, "inf" the float          *)
(* n * infinity, "str" the text s.                                         *)

NaN == [kind |-> "nan", n |-> 0, s |-> <<>>]
IntCell(n) == [kind |-> "int", n |-> n, s |-> <<>>]
FloatCell(t) == [kind |-> "float", n |-> t, s |-> <<>>]
InfCell(sign) == [kind |-> "inf", n |-> sign, s |-> <<>>]
StrCell(s) == [kind |-> "str", n |-> 0, s |-> s]

\* str(raw_value)
PyStr(raw) ==
    CASE raw.kind = "nan" -> <<"n", "a", "n">>
      [] raw.kind = "int" -> StrInt(raw.n)
      [] raw.kind = "float" -> StrFloat(raw.n)
      [] raw.kind = "inf" ->
            (IF raw.n < 0 THEN <<"-">> ELSE <<>>) \o <<"i", "n", "f">>
      [] OTHER -> raw.s

\* pd.isna(raw_value)
pd_isna(raw) == raw.kind = "nan"

\* int(x) for the float x = t / 10: truncation towards zero
IntOfFloat(t) == IF t < 0 THEN -((-t) \div 10) ELSE t \div 10

Returned(v) == [exc |-> "none", val |-> v]
Raised(e) == [exc |-> e, val |-> 0]

\* parse_value(raw_value): what it returns or the exception it raises
parse_value(raw) ==
    IF pd_isna(raw) THEN Returned(0)
    ELSE IF raw.kind = "inf" THEN Raised("OverflowError")
    ELSE IF raw.kind \in {"int", "float"} THEN
        LET val == IF raw.kind = "int" THEN raw.n ELSE IntOfFloat(raw.n)
        IN  IF val \in {1, 0, -1, 2} THEN Returned(val)
            ELSE Raised("ValueError")
    ELSE
        LET str_val == Lower(Strip(PyStr(raw)))
        IN  IF str_val \in {<<>>, <<"n", "a", "n">>, <<"n", "o", "n", "e">>}
            THEN Returned(0)
            ELSE IF str_val = <<"w">> THEN Returned(2)
            ELSE IF str_val \in {<<"1">>, <<"0">>, <<"-", "1">>, <<"2">>}
                 THEN Returned(IntOfStr(str_val))
            ELSE Raised("ValueError")

\* format_value without the alias of 2
format_value_decimal(value) == StrInt(value)

\* format_value(value)
format_value(value) == IF value = 2 THEN <<"w">> ELSE StrInt(value)

-----------------------------------------------------------------------------
(* Schema: what load_config() returns for this installation *)

skills == <<"Notfall">>
modalities == <<"ct", "mr">>

\* f"{skill}_{mod}"
ColName(skill, mod) == skill \o "_" \o mod

\* expected_cols of validate_csv; the columns import_from_csv looks up
expected_cols ==
    {ColName(skills[j], modalities[i]) :
        i \in 1..Len(modalities), j \in 1..Len(skills)}

-----------------------------------------------------------------------------
(* The input file and pd.read_csv.  A file is a header (the column names,  *)
(* in order) and rows of cell texts.  read_csv gives every column one      *)
(* dtype: int64 when every cell is an integer, float64 when every cell is  *)
(* a number or missing, object (text, missing cells NaN) otherwise.        *)

NaTexts == {<<>>, <<"n", "a", "n">>, <<"N", "a", "N">>, <<"N", "A">>,
            <<"N", "o", "n", "e">>, <<"n", "u", "l", "l">>,
            <<"N", "U", "L", "L">>}

IsNaText(s) == s \in NaTexts

IsInfText(s) == s \in {<<"i", "n", "f">>, <<"-", "i", "n", "f">>}

\* digits, a point and one more digit, with an optional sign
IsFloatText(s) ==
    /\ Len(s) >= 3
    /\ s[Len(s) - 1] = "."
    /\ IsDigit(s[Len(s)])
    /\ IsIntText(SubSeq(s, 1, Len(s) - 2))

IsNumText(s) == IsIntText(s) \/ IsFloatText(s) \/ IsInfText(s)

\* the float a numeric text denotes, in tenths
TenthsOfText(s) ==
    IF IsIntText(s) THEN 10 * IntOfStr(s)
    ELSE LET whole == SubSeq(s, 1, Len(s) - 2)
             frac == DigitValue(s[Len(s)])
         IN  IF Head(s) = "-" THEN 10 * IntOfStr(whole) - frac
             ELSE 10 * IntOfStr(whole) + frac

ColumnDtype(texts) ==
    IF texts # {} /\ \A s \in texts : IsIntText(s) THEN "int64"
    ELSE IF \A s \in texts : IsNaText(s) \/ IsNumText(s) THEN "float64"
    ELSE "object"

CellOfText(dtype, s) ==
    IF IsNaText(s) THEN NaN
    ELSE IF dtype = "int64" THEN IntCell(IntOfStr(s))
    ELSE IF dtype = "float64" THEN
        IF IsInfText(s) THEN InfCell(IF Head(s) = "-" THEN -1 ELSE 1)
        ELSE FloatCell(TenthsOfText(s))
    ELSE StrCell(s)

\* pd.read_csv(csv_path): df.columns, and df.iterrows() as a sequence of
\* rows, each a function from the column names to cells
read_csv(file) ==
    LET ncol == Len(file.header)
        texts(k) == {file.rows[r][k] : r \in 1..Len(file.rows)}
        pos(c) == CHOOSE k \in 1..ncol : file.header[k] = c
        names == {file.header[k] : k \in 1..ncol}
    IN  [columns |-> names,
         rows |-> [r \in 1..Len(file.rows) |->
                    [c \in names |->
                        CellOfText(ColumnDtype(texts(pos(c))),
                                   file.rows[r][pos(c)])]]]

\* Headers: the full schema; one expected column missing and one
\* unexpected column present; no Worker column.
Headers == {<<"Worker", "Notfall_ct", "Notfall_mr">>,
            <<"Worker", "Notfall_ct", "Comment">>,
            <<"Name", "Notfall_ct", "Notfall_mr">>}

\* Rows of cell texts a file is made of
RowTexts ==
    {<< <<"A">>, <<"1">>, <<"w">> >>,
     << <<" ", "A", " ">>, <<"1", ".", "5">>, <<>> >>,
     << <<"B">>, <<"m", "a", "y", "b", "e">>, <<"-", "1">> >>,
     << <<>>, <<"1">>, <<"0">> >>,
     << <<" ", " ">>, <<" ", "W", " ">>, <<"2">> >>,
     << <<"B">>, <<"2">>, <<"1", ".", "0">> >>,
     << <<"C">>, <<"i", "n", "f">>, <<"1">> >>,
     << <<"C">>, <<"3">>, <<"m", "a", "y", "b", "e">> >>}

RECURSIVE SeqsUpTo(_, _)
SeqsUpTo(S, n) ==
    IF n = 0 THEN {<<>>}
    ELSE LET shorter == SeqsUpTo(S, n - 1)
         IN  shorter \cup {Append(q, x) : q \in {t \in shorter : Len(t) = n - 1},
                                           x \in S}

CsvFiles == [header : Headers, rows : SeqsUpTo(RowTexts, MaxRows)]

-----------------------------------------------------------------------------
(* Python dicts: sequences of [key, val] entries with distinct keys *)

Keys(d) == {d[i].key : i \in 1..Len(d)}

Has(d, k) == \E i \in 1..Len(d) : d[i].key = k

Get(d, k) == d[CHOOSE i \in 1..Len(d) : d[i].key = k].val

\* d[k] = v
DictSet(d, k, v) ==
    IF Has(d, k)
    THEN [i \in 1..Len(d) |-> IF d[i].key = k THEN [key |-> k, val |-> v]
                                              ELSE d[i]]
    ELSE Append(d, [key |-> k, val |-> v])

\* JSON values of a worker record: a number or a nested mapping
NumVal(n) == [isMap |-> FALSE, n |-> n, m |-> <<>>]
MapVal(m) == [isMap |-> TRUE, n |-> 0, m |-> m]

-----------------------------------------------------------------------------
(* The roster file.  json.dump writes the document chunk by chunk; the     *)
(* file holds the chunks written so far.                                   *)

NoEntry == [key |-> <<>>, val |-> <<>>]
OpenTok == [t |-> "{", e |-> NoEntry]
CloseTok == [t |-> "}", e |-> NoEntry]
EntryTok(e) == [t |-> "entry", e |-> e]

\* the chunks json.dump(roster, f, ...) writes
json_dump(roster) ==
    <<OpenTok>> \o [i \in 1..Len(roster) |-> EntryTok(roster[i])] \o <<CloseTok>>

IsDocument(data) ==
    /\ Len(data) >= 2
    /\ data[1] = OpenTok
    /\ data[Len(data)] = CloseTok
    /\ \A i \in 2..(Len(data) - 1) : data[i].t = "entry"

\* json.load(f): the roster, or JSONDecodeError
json_load(data) ==
    IF IsDocument(data)
    THEN Returned([i \in 1..(Len(data) - 2) |-> data[i + 1].e])
    ELSE Raised("JSONDecodeError")

NoFile == [exists |-> FALSE, data |-> <<>>]
File(data) == [exists |-> TRUE, data |-> data]

\* load_roster(roster_path)
load_roster(d) == IF ~d.exists THEN Returned(<<>>) ELSE json_load(d.data)

\* Stores found on disk before the first command: no file, a store of
\* hierarchical records, and a store with a legacy flat record and a
\* hierarchical record that lacks a modality, and one whose only modality
\* lacks the skill.  Every record is of one shape.
HierStore ==
    << [key |-> <<"A">>,
        val |-> << [key |-> "ct", val |-> MapVal(<<[key |-> "Notfall", val |-> 1]>>)],
                   [key |-> "mr", val |-> MapVal(<<[key |-> "Notfall", val |-> -1]>>)] >>] >>

LegacyStore ==
    << [key |-> <<"A">>,
        val |-> << [key |-> "Notfall_ct", val |-> NumVal(1)] >>],
       [key |-> <<"D">>,
        val |-> << [key |-> "ct", val |-> MapVal(<<[key |-> "Notfall", val |-> 2]>>)] >>],
       [key |-> <<"E">>,
        val |-> << [key |-> "mr", val |-> MapVal(<<>>)] >>] >>

PriorStores == {NoFile, File(json_dump(HierStore)), File(json_dump(LegacyStore))}

-----------------------------------------------------------------------------
(* export_to_csv *)

NoExport == [columns |-> <<>>, rows |-> <<>>]

\* the column keys in the order the loops over modalities and skills
\* append them
SchemaCols ==
    [k \in 1..(Len(modalities) * Len(skills)) |->
        [mod |-> modalities[((k - 1) \div Len(skills)) + 1],
         skill |-> skills[((k - 1) % Len(skills)) + 1]]]

\* columns = ['Worker'] + [f"{skill}_{mod}" ...]
ExportColumns ==
    <<"Worker">> \o [k \in 1..Len(SchemaCols) |->
                        ColName(SchemaCols[k].skill, SchemaCols[k].mod)]

\* IsHierarchical with every record taken for hierarchical
IsHierarchicalAlways(worker_data) == TRUE

\* the test export_to_csv and show_preview make for the hierarchical shape:
\* worker_data and isinstance(next(iter(worker_data.values()), None), dict)
IsHierarchical(worker_data) ==
    worker_data # <<>> /\ worker_data[1].val.isMap

\* row[col_name] of one worker, for a record of one shape
ExportCell(worker_data, mod, skill) ==
    IF IsHierarchical(worker_data)
    THEN LET mod_skills == IF Has(worker_data, mod)
                           THEN Get(worker_data, mod).m ELSE <<>>
         IN  format_value(IF Has(mod_skills, skill)
                          THEN Get(mod_skills, skill) ELSE 0)
    ELSE format_value(IF Has(worker_data, ColName(skill, mod))
                      THEN Get(worker_data, ColName(skill, mod)).n ELSE 0)

\* df = pd.DataFrame(rows, columns=columns): one row per worker, its cells
\* in the order of columns
export_to_csv(roster) ==
    [columns |-> ExportColumns,
     rows |-> [w \in 1..Len(roster) |->
                <<roster[w].key>> \o
                    [k \in 1..Len(SchemaCols) |->
                        ExportCell(roster[w].val, SchemaCols[k].mod,
                                   SchemaCols[k].skill)]]]

-----------------------------------------------------------------------------
(* import_from_csv *)

Modes == {"replace", "merge", "add_only"}

NoStats == [added |-> 0, updated |-> 0, skipped |-> 0, errors |-> 0]

\* InitialRosters with 'replace' treated like the other modes: the store is
\* loaded and copied whatever the mode
InitialRostersKeepExisting(merge_mode, d) ==
    [exc |-> load_roster(d).exc,
     existing |-> load_roster(d).val,
     new |-> load_roster(d).val]

\* InitialRosters with new_roster started empty whatever the mode
InitialRostersStartEmpty(merge_mode, d) ==
    LET loaded == IF merge_mode # "replace" THEN load_roster(d) ELSE Returned(<<>>)
    IN  [exc |-> loaded.exc, existing |-> loaded.val, new |-> <<>>]

\* existing_roster = load_roster(roster_path) if merge_mode != 'replace' else {}
\* new_roster = {} if merge_mode == 'replace' else existing_roster.copy()
\* exc is the exception load_roster raises, "none" when it returns
InitialRosters(merge_mode, d) ==
    LET loaded == IF merge_mode # "replace" THEN load_roster(d) ELSE Returned(<<>>)
    IN  [exc |-> loaded.exc,
         existing |-> loaded.val,
         new |-> IF merge_mode = "replace" THEN <<>> ELSE loaded.val]

\* worker_name = str(row['Worker']).strip()
WorkerName(row) == Strip(PyStr(row["Worker"]))

\* not worker_name or worker_name == 'nan'
IsBlankName(worker_name) ==
    worker_name = <<>> \/ worker_name = <<"n", "a", "n">>

\* the cell of one (mod, skill): parse_value(row[col_name]) when the column
\* is in the table, 0 otherwise
CellResult(row, columns, mod, skill) ==
    IF ColName(skill, mod) \in columns
    THEN parse_value(row[ColName(skill, mod)])
    ELSE Returned(0)

\* worker_data as the loops over modalities and skills build it; a cell
\* that raises ValueError is stored as 0
BuildWorkerData(row, columns) ==
    [i \in 1..Len(modalities) |->
        [key |-> modalities[i],
         val |-> MapVal([j \in 1..Len(skills) |->
                    [key |-> skills[j],
                     val |-> LET r == CellResult(row, columns, modalities[i], skills[j])
                             IN  IF r.exc = "none" THEN r.val ELSE 0]])]]

CellsRaising(row, columns, exc) ==
    {<<i, j>> \in (1..Len(modalities)) \X (1..Len(skills)) :
        CellResult(row, columns, modalities[i], skills[j]).exc = exc}

\* ImportRow with is_update taken from the roster being built
ImportRowUpdateAgainstNew(st, row, columns, merge_mode, existing) ==
    LET worker_name == WorkerName(row)
        is_update == Has(st.new_roster, worker_name)
    IN  IF st.crashed THEN st
        ELSE IF IsBlankName(worker_name) THEN st
        ELSE IF merge_mode = "add_only" /\ Has(existing, worker_name)
        THEN [st EXCEPT !.stats.skipped = @ + 1]
        ELSE IF CellsRaising(row, columns, "OverflowError") # {}
        THEN [st EXCEPT !.crashed = TRUE]
        ELSE [st EXCEPT
                !.new_roster = DictSet(@, worker_name, BuildWorkerData(row, columns)),
                !.stats.errors =
                    @ + Cardinality(CellsRaising(row, columns, "ValueError")),
                !.stats.updated = IF is_update THEN @ + 1 ELSE @,
                !.stats.added = IF is_update THEN @ ELSE @ + 1]

\* one iteration of `for _, row in df.iterrows()`; st.crashed when an
\* exception other than ValueError leaves the loop
ImportRow(st, row, columns, merge_mode, existing) ==
    LET worker_name == WorkerName(row)
        is_update == Has(existing, worker_name)
    IN  IF st.crashed THEN st
        ELSE IF IsBlankName(worker_name) THEN st
        ELSE IF merge_mode = "add_only" /\ Has(existing, worker_name)
        THEN [st EXCEPT !.stats.skipped = @ + 1]
        ELSE IF CellsRaising(row, columns, "OverflowError") # {}
        THEN [st EXCEPT !.crashed = TRUE]
        ELSE [st EXCEPT
                !.new_roster = DictSet(@, worker_name, BuildWorkerData(row, columns)),
                !.stats.errors =
                    @ + Cardinality(CellsRaising(row, columns, "ValueError")),
                !.stats.updated = IF is_update THEN @ + 1 ELSE @,
                !.stats.added = IF is_update THEN @ ELSE @ + 1]

RECURSIVE ImportRows(_, _, _, _, _)
ImportRows(st, rows, columns, merge_mode, existing) ==
    IF rows = <<>> THEN st
    ELSE ImportRows(ImportRow(st, Head(rows), columns, merge_mode, existing),
                    Tail(rows), columns, merge_mode, existing)

\* the whole loop of import_from_csv over the table
ImportLoop(df, merge_mode, rosters) ==
    ImportRows([new_roster |-> rosters.new, stats |-> NoStats, crashed |-> FALSE],
               df.rows, df.columns, merge_mode, rosters.existing)

-----------------------------------------------------------------------------
(* validate_csv *)

\* CheckedCols with every found column checked, expected or not
CheckedColsAllFound(df) == df.columns \ {"Worker"}

\* CheckedCols with the unexpected columns checked in place of the expected
CheckedColsExtra(df) == (df.columns \ {"Worker"}) \ expected_cols

\* found_cols & expected_cols
CheckedCols(df) == (df.columns \ {"Worker"}) \cap expected_cols

CellsFailing(df, exc) ==
    {<<idx, col>> \in (1..Len(df.rows)) \X CheckedCols(df) :
        parse_value(df.rows[idx][col]).exc = exc}

\* errors: one entry f"{worker}.{col}: '{val}'" per cell that raises
\* ValueError; idx keeps equal entries of different rows apart
ValidationErrors(df) ==
    {[idx |-> c[1],
      worker |-> PyStr(df.rows[c[1]]["Worker"]),
      col |-> c[2],
      val |-> PyStr(df.rows[c[1]][c[2]])] : c \in CellsFailing(df, "ValueError")}

\* validate_csv(csv_path): "true", "false", or "crash" when parse_value
\* raises an exception that `except ValueError` does not catch
validate_csv(df) ==
    IF "Worker" \notin df.columns THEN [result |-> "false", errors |-> {}]
    ELSE IF CellsFailing(df, "OverflowError") # {}
    THEN [result |-> "crash", errors |-> {}]
    ELSE IF ValidationErrors(df) # {}
    THEN [result |-> "false", errors |-> ValidationErrors(df)]
    ELSE [result |-> "true", errors |-> {}]

-----------------------------------------------------------------------------
(* Value-codec computations *)

SampleTexts ==
    {<<>>, <<" ">>, <<"w">>, <<"W">>, <<" ", "w", " ">>, <<" ", "W", "\t">>,
     <<"w", "w">>, <<"1">>, <<"0">>, <<"-", "1">>, <<"2">>, <<" ", "2", " ">>,
     <<"3">>, <<"-", "2">>, <<"1", ".", "0">>, <<"1", ".", "5">>, <<"+", "1">>,
     <<"0", "1">>, <<"n", "a", "n">>, <<"N", "a", "N">>,
     <<" ", "N", "o", "n", "e", " ">>, <<"n", "u", "l", "l">>,
     <<"m", "a", "y", "b", "e">>, <<"x">>}

RawValues ==
    {NaN, InfCell(1), InfCell(-1)}
        \cup {IntCell(n) : n \in (-MaxInt)..MaxInt}
        \cup {FloatCell(t) : t \in (-MaxTenths)..MaxTenths}
        \cup {StrCell(s) : s \in SampleTexts}

CodecIdle ==
    [step |-> "idle", from |-> "none", raw |-> NaN, res |-> Returned(0),
     text |-> <<>>, back |-> Returned(0)]

\* res = parse_value(raw)
CodecDecode ==
    /\ codec.step = "raw"
    /\ codec' = [codec EXCEPT !.step = "decoded", !.res = parse_value(codec.raw)]
    /\ UNCHANGED <<table, mode, disk, prior, pc, cmd, run, existing_roster,
                   new_roster, stats, saved, prevSaved, reported, exitStatus,
                   valid, errors, exported>>

\* text = format_value(res)
CodecEncode ==
    /\ \/ codec.step = "value"
       \/ codec.step = "decoded" /\ codec.res.exc = "none"
    /\ codec' = [codec EXCEPT !.step = "encoded",
                              !.text = format_value(codec.res.val)]
    /\ UNCHANGED <<table, mode, disk, prior, pc, cmd, run, existing_roster,
                   new_roster, stats, saved, prevSaved, reported, exitStatus,
                   valid, errors, exported>>

\* back = parse_value(text)
CodecDecodeText ==
    /\ codec.step = "encoded"
    /\ codec' = [codec EXCEPT !.step = "redecoded",
                              !.back = parse_value(StrCell(codec.text))]
    /\ UNCHANGED <<table, mode, disk, prior, pc, cmd, run, existing_roster,
                   new_roster, stats, saved, prevSaved, reported, exitStatus,
                   valid, errors, exported>>

-----------------------------------------------------------------------------
(* The commands of main.  A process is at "start" before main runs, at     *)
(* "save" when import_from_csv calls save_roster, at "writing" while the   *)
(* roster file is open for writing, at "exit" when it has ended and at     *)
(* "killed" when it was interrupted.                                        *)

\* an import command can start: the first command, or after an import
CanImport ==
    /\ pc = "start" \/ (pc = "exit" /\ cmd = "import")
    /\ run < MaxRuns

\* `python roster_csv_tool.py import`, what every start of it does
ImportStarts ==
    /\ cmd' = "import"
    /\ run' = run + 1
    /\ prior' = disk
    /\ prevSaved' = saved
    /\ saved' = "none"
    /\ reported' = FALSE
    /\ UNCHANGED <<table, mode, disk, valid, errors, codec,
                   exported>>

\* import: the table has no Worker column, sys.exit(1)
ImportNoWorkerColumn ==
    /\ CanImport
    /\ "Worker" \notin table.columns
    /\ ImportStarts
    /\ pc' = "exit"
    /\ exitStatus' = 1
    /\ existing_roster' = <<>>
    /\ new_roster' = <<>>
    /\ stats' = NoStats

\* import: load_roster raises on a file that is no JSON document; the
\* exception ends the process
ImportLoadError ==
    /\ CanImport
    /\ "Worker" \in table.columns
    /\ InitialRosters(mode, disk).exc # "none"
    /\ ImportStarts
    /\ pc' = "exit"
    /\ exitStatus' = 1
    /\ existing_roster' = <<>>
    /\ new_roster' = <<>>
    /\ stats' = NoStats

\* import: parse_value raises an exception the loop does not catch; the
\* exception ends the process before save_roster is called
ImportCrash ==
    /\ CanImport
    /\ "Worker" \in table.columns
    /\ InitialRosters(mode, disk).exc = "none"
    /\ ImportLoop(table, mode, InitialRosters(mode, disk)).crashed
    /\ ImportStarts
    /\ pc' = "exit"
    /\ exitStatus' = 1
    /\ existing_roster' = InitialRosters(mode, disk).existing
    /\ new_roster' = <<>>
    /\ stats' = NoStats

\* import: from the start of import_from_csv to its call of save_roster
ImportTable ==
    /\ CanImport
    /\ "Worker" \in table.columns
    /\ InitialRosters(mode, disk).exc = "none"
    /\ LET st == ImportLoop(table, mode, InitialRosters(mode, disk))
       IN  /\ ~st.crashed
           /\ existing_roster' = InitialRosters(mode, disk).existing
           /\ new_roster' = st.new_roster
           /\ stats' = st.stats
    /\ ImportStarts
    /\ pc' = "save"
    /\ exitStatus' = -1

\* save_roster fails and import_from_csv returns to main, which ends
SaveFails ==
    /\ saved' = "false"
    /\ reported' = FALSE
    /\ pc' = "exit"
    /\ exitStatus' = 0
    /\ UNCHANGED <<table, mode, disk, prior, cmd, run, existing_roster,
                   new_roster, stats, prevSaved, valid, errors, codec,
                   exported>>

\* save_roster: open(roster_path, 'w') creates or truncates the file
SaveOpen ==
    /\ pc = "save"
    /\ disk' = File(<<>>)
    /\ pc' = "writing"
    /\ UNCHANGED <<table, mode, prior, cmd, run, existing_roster, new_roster,
                   stats, saved, prevSaved, reported, exitStatus, valid,
                   errors, codec,
                   exported>>

\* save_roster: open raises (no permission, no directory); the file is
\* not touched
SaveOpenFails ==
    /\ pc = "save"
    /\ SaveFails

\* save_roster: json.dump writes the next chunk of the document
SaveWrite ==
    /\ pc = "writing"
    /\ Len(disk.data) < Len(json_dump(new_roster))
    /\ disk' = File(Append(disk.data, json_dump(new_roster)[Len(disk.data) + 1]))
    /\ UNCHANGED <<table, mode, prior, pc, cmd, run, existing_roster,
                   new_roster, stats, saved, prevSaved, reported, exitStatus,
                   valid, errors, codec,
                   exported>>

\* save_roster: a write raises (disk full, I/O error) before the document
\* is complete on disk
SaveWriteFails ==
    /\ pc = "writing"
    /\ Len(disk.data) < Len(json_dump(new_roster))
    /\ SaveFails

\* save_roster returns True; import_from_csv prints "Import complete:" and
\* returns to main, which ends
SaveDone ==
    /\ pc = "writing"
    /\ Len(disk.data) = Len(json_dump(new_roster))
    /\ saved' = "true"
    /\ reported' = TRUE
    /\ pc' = "exit"
    /\ exitStatus' = 0
    /\ UNCHANGED <<table, mode, disk, prior, cmd, run, existing_roster,
                   new_roster, stats, prevSaved, valid, errors, codec,
                   exported>>

\* the process is interrupted while it persists the store
Interrupt ==
    /\ pc \in {"save", "writing"}
    /\ pc' = "killed"
    /\ exitStatus' = 130
    /\ UNCHANGED <<table, mode, disk, prior, cmd, run, existing_roster,
                   new_roster, stats, saved, prevSaved, reported, valid,
                   errors, codec,
                   exported>>

\* an export command can start: the first command, or after an import
CanExport == pc = "start" \/ (pc = "exit" /\ cmd = "import")

\* `python roster_csv_tool.py export`, what every end of it does
ExportEnds ==
    /\ cmd' = "export"
    /\ pc' = "exit"
    /\ prior' = disk
    /\ UNCHANGED <<table, mode, disk, run, existing_roster, new_roster, stats,
                   saved, prevSaved, reported, valid, errors, codec>>

\* export: load_roster raises on a file that is no JSON document
ExportLoadError ==
    /\ CanExport
    /\ load_roster(disk).exc # "none"
    /\ exported' = NoExport
    /\ exitStatus' = 1
    /\ ExportEnds

\* export: the roster is empty or not found, sys.exit(1)
ExportEmptyRoster ==
    /\ CanExport
    /\ load_roster(disk) = Returned(<<>>)
    /\ exported' = NoExport
    /\ exitStatus' = 1
    /\ ExportEnds

\* export: the table is built and written
Export ==
    /\ CanExport
    /\ load_roster(disk).exc = "none"
    /\ load_roster(disk).val # <<>>
    /\ exported' = export_to_csv(load_roster(disk).val)
    /\ exitStatus' = 0
    /\ ExportEnds

\* `python roster_csv_tool.py validate`: sys.exit(0 if validate_csv(..) else 1)
Validate ==
    /\ pc = "start"
    /\ cmd' = "validate"
    /\ valid' = validate_csv(table).result
    /\ errors' = validate_csv(table).errors
    /\ exitStatus' = IF validate_csv(table).result = "true" THEN 0 ELSE 1
    /\ pc' = "exit"
    /\ prior' = disk
    /\ UNCHANGED <<table, mode, disk, run, existing_roster, new_roster, stats,
                   saved, prevSaved, reported, codec,
                   exported>>

-----------------------------------------------------------------------------
(* Specifications *)

Init ==
    /\ table \in {read_csv(f) : f \in CsvFiles}
    /\ mode \in Modes
    /\ disk \in PriorStores
    /\ prior = disk
    /\ pc = "start"
    /\ cmd = "none"
    /\ run = 0
    /\ existing_roster = <<>>
    /\ new_roster = <<>>
    /\ stats = NoStats
    /\ saved = "none"
    /\ prevSaved = "none"
    /\ reported = FALSE
    /\ exitStatus = -1
    /\ valid = "none"
    /\ errors = {}
    /\ exported = NoExport
    /\ codec = CodecIdle

Next ==
    \/ ImportNoWorkerColumn
    \/ ImportLoadError
    \/ ImportCrash
    \/ ImportTable
    \/ SaveOpen
    \/ SaveOpenFails
    \/ SaveWrite
    \/ SaveWriteFails
    \/ SaveDone
    \/ Interrupt
    \/ Validate
    \/ ExportLoadError
    \/ ExportEmptyRoster
    \/ Export

Spec == Init /\ [][Next]_vars

\* the codec alone: parse_value on every raw value, format_value on every
\* integer, and each followed by the other
InitCodec ==
    /\ table = read_csv([header |-> <<"Worker">>, rows |-> <<>>])
    /\ mode = "replace"
    /\ disk = NoFile
    /\ prior = disk
    /\ pc = "codec"
    /\ cmd = "none"
    /\ run = 0
    /\ existing_roster = <<>>
    /\ new_roster = <<>>
    /\ stats = NoStats
    /\ saved = "none"
    /\ prevSaved = "none"
    /\ reported = FALSE
    /\ exitStatus = -1
    /\ valid = "none"
    /\ errors = {}
    /\ exported = NoExport
    /\ codec \in {[CodecIdle EXCEPT !.step = "raw", !.from = "raw", !.raw = r] :
                    r \in RawValues}
            \cup {[CodecIdle EXCEPT !.step = "value", !.from = "value",
                                    !.res = Returned(v)] :
                    v \in (-MaxInt)..MaxInt}

NextCodec == CodecDecode \/ CodecEncode \/ CodecDecodeText

SpecCodec == InitCodec /\ [][NextCodec]_vars

-----------------------------------------------------------------------------
(* Properties *)

\* import_from_csv has returned its stats to main
ImportReturned == cmd = "import" /\ pc = "exit" /\ saved # "none"

\* the store a successful save_roster left on disk
WrittenStore == load_roster(disk).val

Maybe == <<"m", "a", "y", "b", "e">>

\* the name of a row, trimmed
TrimmedName(row) == Strip(PyStr(row["Worker"]))

\* an empty or null-rendered name
BlankName(name) == name = <<>> \/ name = <<"n", "a", "n">>

TableNames == {TrimmedName(table.rows[i]) : i \in 1..Len(table.rows)}

\* C1: while an import persists the store, and after it, the roster file
\* holds the complete prior contents or the complete new contents.
StoreWriteAtomic ==
    cmd = "import" => disk = prior \/ disk = File(json_dump(new_roster))

\* C2: an import whose save_roster failed ends with a non-zero exit status
\* and does not print "Import complete:".
PersistFailureSignalled ==
    ImportReturned /\ saved = "false" => exitStatus # 0 /\ ~reported

\* the value the codec contract gives a raw input, -2 when the contract
\* rejects it: missing, blank and null-like inputs are 0, the text w is 2,
\* and a number or text equal to one of 1, 0, -1, 2 is that value
ContractValue(raw) ==
    LET txt == Lower(Strip(raw.s))
    IN  CASE raw.kind = "nan" -> 0
          [] raw.kind = "int" -> IF raw.n \in {1, 0, -1, 2} THEN raw.n ELSE -2
          [] raw.kind = "float" ->
                IF raw.n \in {10, 0, -10, 20} THEN raw.n \div 10 ELSE -2
          [] raw.kind = "inf" -> -2
          [] OTHER ->
                IF txt \in {<<>>, <<"n", "a", "n">>, <<"n", "o", "n", "e">>} THEN 0
                ELSE IF txt = <<"w">> THEN 2
                ELSE IF txt = <<"1">> THEN 1
                ELSE IF txt = <<"0">> THEN 0
                ELSE IF txt = <<"-", "1">> THEN -1
                ELSE IF txt = <<"2">> THEN 2
                ELSE -2

\* C3: parse_value returns the contract's value for the inputs the contract
\* accepts and raises ValueError for every other input.
ParseValueStrict ==
    codec.step = "decoded" =>
        IF ContractValue(codec.raw) = -2
        THEN codec.res.exc = "ValueError"
        ELSE codec.res = Returned(ContractValue(codec.raw))

\* C4: a second add_only import of the same table, against the store the
\* first one wrote, adds and updates nothing, counts every row as skipped
\* and leaves the store as it was.
AddOnlyIdempotent ==
    ImportReturned /\ mode = "add_only" /\ run >= 2
            /\ prevSaved = "true" /\ saved = "true" =>
        /\ stats.added = 0
        /\ stats.updated = 0
        /\ stats.skipped = Len(table.rows)
        /\ disk = prior

\* C5: after a replace import the workers of the store are exactly the
\* trimmed, non-blank names of the table's rows, each once.
ReplaceTotality ==
    ImportReturned /\ mode = "replace" =>
        /\ Keys(new_roster) = {n \in TableNames : ~BlankName(n)}
        /\ Cardinality(Keys(new_roster)) = Len(new_roster)
        /\ saved = "true" => load_roster(disk) = Returned(new_roster)

\* a replace import was saved, it dropped a worker of the prior store and
\* took a worker from the table
ReplaceTotalityWitness ==
    /\ ImportReturned /\ mode = "replace" /\ saved = "true"
    /\ WrittenStore # <<>>
    /\ \E k \in Keys(load_roster(prior).val) : k \notin Keys(WrittenStore)

\* C6: after a merge import every worker of the prior store whose name is
\* not a name of the table is in the store with the record it had.
MergeRetention ==
    ImportReturned /\ mode = "merge" =>
        \A k \in Keys(load_roster(prior).val) \ TableNames :
            /\ Has(new_roster, k)
            /\ Get(new_roster, k) = Get(load_roster(prior).val, k)
            /\ saved = "true" =>
                /\ Has(WrittenStore, k)
                /\ Get(WrittenStore, k) = Get(load_roster(prior).val, k)

\* a merge import was saved, it imported a row and the prior store had a
\* worker that is not in the table
MergeRetentionWitness ==
    /\ ImportReturned /\ mode = "merge" /\ saved = "true"
    /\ stats.added + stats.updated > 0
    /\ Keys(load_roster(prior).val) \ TableNames # {}

\* every value of the record is a nested mapping
HierarchicalShape(worker_data) ==
    \A i \in 1..Len(worker_data) : worker_data[i].val.isMap

\* C7: every worker record of a store an import wrote is in the
\* hierarchical shape.
CanonicalWrittenShape ==
    ImportReturned /\ saved = "true" =>
        \A i \in 1..Len(WrittenStore) : HierarchicalShape(WrittenStore[i].val)

\* the cells of the expected columns that are in the table
ExpectedCells ==
    {<<idx, col>> \in (1..Len(table.rows)) \X (expected_cols \cap table.columns) : TRUE}

\* the table without its unexpected columns
WithoutExtraColumns ==
    LET kept == table.columns \cap (expected_cols \cup {"Worker"})
    IN  [columns |-> kept,
         rows |-> [i \in 1..Len(table.rows) |-> [c \in kept |-> table.rows[i][c]]]]

SkippedCounts ==
    ImportReturned =>
        stats.skipped =
            Cardinality({i \in 1..Len(table.rows) :
                \/ BlankName(TrimmedName(table.rows[i]))
                \/ /\ mode = "add_only"
                   /\ Has(existing_roster, TrimmedName(table.rows[i]))})

\* C10: parse_value(format_value(v)) = v for v in {-1, 0, 1, 2}, and
\* format_value(parse_value("w")) = "w".
CodecRoundTrip ==
    /\ codec.step = "redecoded" /\ codec.from = "value"
            /\ codec.res.val \in {-1, 0, 1, 2} =>
        codec.back = Returned(codec.res.val)
    /\ codec.step \in {"encoded", "redecoded"} /\ codec.from = "raw"
            /\ codec.raw = StrCell(<<"w">>) =>
        codec.text = <<"w">>

\* the value 2 was encoded and decoded again
CodecRoundTripWitness ==
    /\ codec.step = "redecoded" /\ codec.from = "value"
    /\ codec.res.val = 2
    /\ codec.text = <<"w">>

\* the cell a record is to export for (mod, skill): the encoded value
\* stored for the key, "0" when the modality or the skill is absent
StoredCell(rec, mod, skill) ==
    IF rec # <<>> /\ rec[1].val.isMap
    THEN IF Has(rec, mod) /\ Has(Get(rec, mod).m, skill)
         THEN format_value(Get(Get(rec, mod).m, skill))
         ELSE <<"0">>
    ELSE IF Has(rec, ColName(skill, mod))
         THEN format_value(Get(rec, ColName(skill, mod)).n)
         ELSE <<"0">>

\* C11: an export of a non-empty store has one row per worker, in the
\* store's order, and under each column key the encoded value the record
\* stores for it, read by the record's shape, "0" when the key is absent.
ExportCellContent ==
    cmd = "export" /\ pc = "exit" /\ exitStatus = 0 =>
        LET store == load_roster(disk).val
        IN  /\ store # <<>>
            /\ Len(exported.rows) = Len(store)
            /\ exported.columns[1] = "Worker"
            /\ \A w \in 1..Len(store) :
                /\ exported.rows[w][1] = store[w].key
                /\ \A i \in 1..Len(modalities), j \in 1..Len(skills) :
                    LET k == 1 + (i - 1) * Len(skills) + j
                    IN  /\ exported.columns[k] = ColName(skills[j], modalities[i])
                        /\ exported.rows[w][k] =
                            StoredCell(store[w].val, modalities[i], skills[j])

\* an export wrote a flat record's stored 1, and a hierarchical record's
\* weighted value beside the "0" of a modality the record lacks
ExportCellContentWitness ==
    /\ cmd = "export" /\ pc = "exit" /\ exitStatus = 0
    /\ \E w \in 1..Len(exported.rows) :
        LET rec == load_roster(disk).val[w].val
        IN  /\ rec # <<>> /\ ~rec[1].val.isMap
            /\ exported.rows[w][2] = <<"1">>
    /\ \E w \in 1..Len(exported.rows) :
        LET rec == load_roster(disk).val[w].val
        IN  /\ rec # <<>> /\ rec[1].val.isMap
            /\ ~Has(rec, "mr")
            /\ exported.rows[w][2] = <<"w">>
            /\ exported.rows[w][3] = <<"0">>

\* the rows import_from_csv builds a record from: the name is not blank
\* and the row is not skipped under add_only
ImportedRows ==
    {i \in 1..Len(table.rows) :
        /\ ~BlankName(TrimmedName(table.rows[i]))
        /\ ~(mode = "add_only" /\ Has(existing_roster, TrimmedName(table.rows[i])))}

\* C12 as stated: added is the number of workers of the resulting store
\* that were not in the prior store, updated the number of workers of the
\* prior store whose record a table row replaced.
AddedUpdatedByWorker ==
    ImportReturned /\ load_roster(prior).exc = "none" =>
        LET before == Keys(load_roster(prior).val)
        IN  /\ stats.added = Cardinality(Keys(new_roster) \ before)
            /\ stats.updated =
                Cardinality({k \in before :
                    \E i \in ImportedRows : TrimmedName(table.rows[i]) = k})

\* C12 amended: added is the number of imported rows whose worker is not
\* in the existing store as the import loaded it (empty under replace),
\* updated the number of imported rows whose worker is in it; a name in
\* several rows counts once per row.
AddedUpdatedByRow ==
    ImportReturned =>
        /\ stats.added =
            Cardinality({i \in ImportedRows :
                ~Has(existing_roster, TrimmedName(table.rows[i]))})
        /\ stats.updated =
            Cardinality({i \in ImportedRows :
                Has(existing_roster, TrimmedName(table.rows[i]))})

\* a merge import took two rows of one worker that the store did not have
AddedUpdatedByRowWitness ==
    /\ ImportReturned /\ mode = "merge"
    /\ Len(table.rows) = 2
    /\ TrimmedName(table.rows[1]) = TrimmedName(table.rows[2])
    /\ stats.added = 2
    /\ Len(new_roster) = Len(existing_roster) + 1

\* C13: an import of a table that validate passes counts no decode error,
\* and parse_value ends no such import.
ValidatedImportHasNoErrors ==
    cmd = "import" /\ "Worker" \in table.columns
            /\ validate_csv(table).result = "true" =>
        /\ stats.errors = 0
        /\ pc = "exit" /\ saved = "none" => InitialRosters(mode, prior).exc # "none"

\* an import built a record from a row of a table that validate passes and
\* that has a value in an expected column
ValidatedImportWitness ==
    /\ ImportReturned
    /\ validate_csv(table).result = "true"
    /\ \E i \in ImportedRows :
        \E c \in expected_cols \cap table.columns : table.rows[i][c].kind # "nan"

====
